---- MODULE Spec2Model ----
(***************************************************************************)
(* disimpy/utils.py, vec2vec_rotmat(v, k): the rotation matrix aligning v  *)
(* with k, by Rodrigues' rotation formula.                                 *)
(*                                                                         *)
(* Numbers are the extended rationals: <<n, d>> with d > 0 in lowest terms *)
(* is n/d, <<0, 0>> is NaN, <<1, 0>> and <<-1, 0>> are +Inf and -Inf.      *)
(* Arithmetic is exact (no rounding); the inputs are the integer vectors   *)
(* on which every square root the function takes is rational.  An angle   *)
(* is the pair of its sine and cosine.                                     *)
(*                                                                         *)
(* Spec is one call running alone, statement by statement.  ConcSpec is   *)
(* NumCalls calls running concurrently on the same two caller arrays, each *)
(* advancing statement by statement over its own locals.                   *)
(***************************************************************************)
EXTENDS Integers, Sequences, FiniteSets, TLC

\* ---- bounds ----
MaxC == 4
ConcMaxC == 2
NumCalls == 2

\* np.finfo(float).eps = 2^-EpsBits
EpsBits == 52

Calls == 1..NumCalls

\* ---- extended rational arithmetic (IEEE special values, exact finite part) ----
Abs(n) == IF n < 0 THEN -n ELSE n

Sign(n) == IF n < 0 THEN -1 ELSE IF n > 0 THEN 1 ELSE 0

RECURSIVE Gcd(_, _)
Gcd(a, b) == IF b = 0 THEN a ELSE Gcd(b, a % b)

NaN == <<0, 0>>

Zero == <<0, 1>>

One == <<1, 1>>

IsNaN(x) == x = NaN

IsFinite(x) == x[2] > 0

Reduce(n, d) ==
    IF d = 0 THEN <<Sign(n), 0>>
    ELSE LET g == Gcd(Abs(n), Abs(d))
         IN  <<Sign(d) * (n \div g), Abs(d) \div g>>

Num(n) == <<n, 1>>

Neg(x) == <<-x[1], x[2]>>

Mul(x, y) ==
    IF IsFinite(x) /\ IsFinite(y)
    THEN LET g1 == Gcd(Abs(x[1]), y[2])
             g2 == Gcd(Abs(y[1]), x[2])
         IN  Reduce((x[1] \div g1) * (y[1] \div g2), (x[2] \div g2) * (y[2] \div g1))
    ELSE <<Sign(x[1]) * Sign(y[1]), 0>>

Add(x, y) ==
    IF IsFinite(x) /\ IsFinite(y)
    THEN LET g == Gcd(x[2], y[2])
         IN  Reduce(x[1] * (y[2] \div g) + y[1] * (x[2] \div g), (x[2] \div g) * y[2])
    ELSE IF IsNaN(x) \/ IsNaN(y) THEN NaN
    ELSE IF IsFinite(x) THEN y
    ELSE IF IsFinite(y) THEN x
    ELSE IF x = y THEN x ELSE NaN

Sub(x, y) == Add(x, Neg(y))

Inv(x) ==
    IF IsNaN(x) THEN NaN
    ELSE IF ~IsFinite(x) THEN Zero
    ELSE IF x[1] = 0 THEN <<1, 0>>
    ELSE <<Sign(x[1]) * x[2], Abs(x[1])>>

Div(x, y) == Mul(x, Inv(y))

\* x < y; any comparison with NaN is false
Lt(x, y) ==
    /\ ~IsNaN(x)
    /\ ~IsNaN(y)
    /\ x[1] * y[2] < y[1] * x[2]

Gt(x, y) == Lt(y, x)

RECURSIVE Halve(_, _)
Halve(n, times) == IF times = 0 \/ n = 0 THEN n ELSE Halve(n \div 2, times - 1)

\* "not (x >= eps)": true of NaN
NotGeEps(x) ==
    ~(x[1] > 0 /\ (~IsFinite(x) \/ x[1] > Halve(x[2] - 1, EpsBits)))

\* x < 2^-EpsBits, without forming 2^EpsBits
LtEps(x) ==
    /\ ~IsNaN(x)
    /\ \/ x[1] < 0
       \/ /\ IsFinite(x)
          /\ x[1] <= Halve(x[2] - 1, EpsBits)

RECURSIVE RootFrom(_, _)
RootFrom(n, r) == IF r * r >= n THEN r ELSE RootFrom(n, r + 1)

IsSquare(n) == n >= 0 /\ RootFrom(n, 0) * RootFrom(n, 0) = n

\* np.sqrt on the numbers whose root is rational
Sqrt(x) ==
    IF IsNaN(x) \/ x[1] < 0 THEN NaN
    ELSE IF ~IsFinite(x) THEN x
    ELSE <<RootFrom(x[1], 0), RootFrom(x[2], 0)>>

HasExactRoot(x) == IsFinite(x) /\ IsSquare(x[1]) /\ IsSquare(x[2])

\* ---- 3-vectors and 3x3 matrices ----
Scale(c, a) == <<Mul(c, a[1]), Mul(c, a[2]), Mul(c, a[3])>>

VDiv(a, c) == <<Div(a[1], c), Div(a[2], c), Div(a[3], c)>>

Neg3(a) == <<Neg(a[1]), Neg(a[2]), Neg(a[3])>>

VSub(a, b) == <<Sub(a[1], b[1]), Sub(a[2], b[2]), Sub(a[3], b[3])>>

Dot(a, b) == Add(Add(Mul(a[1], b[1]), Mul(a[2], b[2])), Mul(a[3], b[3]))

Cross(a, b) ==
    << Sub(Mul(a[2], b[3]), Mul(a[3], b[2])),
       Sub(Mul(a[3], b[1]), Mul(a[1], b[3])),
       Sub(Mul(a[1], b[2]), Mul(a[2], b[1])) >>

Norm(a) == Sqrt(Dot(a, a))

Eye == << <<One, Zero, Zero>>, <<Zero, One, Zero>>, <<Zero, Zero, One>> >>

MScale(c, M) == [i \in 1..3 |-> [j \in 1..3 |-> Mul(c, M[i][j])]]

NegEye == MScale(Num(-1), Eye)

MAdd(M, N) == [i \in 1..3 |-> [j \in 1..3 |-> Add(M[i][j], N[i][j])]]

MatMul(M, N) ==
    [i \in 1..3 |-> [j \in 1..3 |->
        Add(Add(Mul(M[i][1], N[1][j]), Mul(M[i][2], N[2][j])), Mul(M[i][3], N[3][j]))]]

Transpose(M) == [i \in 1..3 |-> [j \in 1..3 |-> M[j][i]]]

MatVec(M, a) == <<Dot(M[1], a), Dot(M[2], a), Dot(M[3], a)>>

Det(M) ==
    Add(Sub(Mul(M[1][1], Sub(Mul(M[2][2], M[3][3]), Mul(M[2][3], M[3][2]))),
            Mul(M[1][2], Sub(Mul(M[2][1], M[3][3]), Mul(M[2][3], M[3][1])))),
        Mul(M[1][3], Sub(Mul(M[2][1], M[3][2]), Mul(M[2][2], M[3][1]))))

\* ---- angles: the pair (sine, cosine) ----
NaNAngle == [sin |-> NaN, cos |-> NaN]

\* np.arcsin: the angle in [-pi/2, pi/2] with sine x, so its cosine is >= 0
ArcSin(x) ==
    IF IsNaN(x) \/ Gt(x, One) \/ Lt(x, Num(-1)) THEN NaNAngle
    ELSE [sin |-> x, cos |-> Sqrt(Sub(One, Mul(x, x)))]

\* np.pi - angle
PiMinus(a) == [sin |-> a.sin, cos |-> Neg(a.cos)]

Sin(a) == a.sin

Cos(a) == a.cos

\* ---- the statements of vec2vec_rotmat ----
\* the integer vectors with components in -m..m
Vectors(m) == {<<Num(x), Num(y), Num(z)>> : x \in -m..m, y \in -m..m, z \in -m..m}

\* those whose Euclidean norm is rational
RationalNormVectors(m) == {a \in Vectors(m) : HasExactRoot(Dot(a, a))}

SeqInputs == RationalNormVectors(MaxC)

ConcInputs == RationalNormVectors(ConcMaxC)

\* lines 24, 25: a / np.linalg.norm(a)
Normalized(a) == VDiv(a, Norm(a))

\* lines 24, 25: "name = expression" binds the local name to a new array;
\* the array the caller passed keeps its contents
RebindInPlace(old, new) == new

Rebind(old, new) == old

\* line 27: np.linalg.norm(axis) < np.finfo(float).eps
IsDegenerate(ax) == LtEps(Norm(ax))

\* line 28 with v + k for v - k
IsOppositeSum(vn, kn) == Gt(Norm(VSub(vn, Neg3(kn))), Norm(vn))

\* line 28 with the comparison turned round
IsOppositeSwapped(vn, kn) == Lt(Norm(VSub(vn, kn)), Norm(vn))

\* line 28 against |v| + |k|
IsOppositeStrict(vn, kn) == Gt(Norm(VSub(vn, kn)), Add(Norm(vn), Norm(kn)))

\* line 28: np.linalg.norm(v - k) > np.linalg.norm(v)
IsOpposite(vn, kn) == Gt(Norm(VSub(vn, kn)), Norm(vn))

\* line 32 left out
RawAxis(ax) == ax

\* line 32: axis /= np.linalg.norm(axis)
UnitAxis(ax) == VDiv(ax, Norm(ax))

\* lines 33-34: np.arcsin(norm(cross(v, k)) / (norm(k) * norm(v)))
RawAngle(vn, kn) == ArcSin(Div(Norm(Cross(vn, kn)), Mul(Norm(kn), Norm(vn))))

\* lines 35-36 left out
UncorrectedAngle(vn, kn, a) == a

\* lines 35-36: if np.dot(v, k) < 0: angle = np.pi - angle
CorrectedAngle(vn, kn, a) == IF Lt(Dot(vn, kn), Zero) THEN PiMinus(a) ELSE a

\* lines 37-39 with the signs exchanged
SkewMatrixTransposed(ax) ==
    << <<Zero, ax[3], Neg(ax[2])>>,
       <<Neg(ax[3]), Zero, ax[1]>>,
       <<ax[2], Neg(ax[1]), Zero>> >>

\* lines 37-39
SkewMatrix(ax) ==
    << <<Zero, Neg(ax[3]), ax[2]>>,
       <<ax[3], Zero, Neg(ax[1])>>,
       <<Neg(ax[2]), ax[1], Zero>> >>

\* lines 40-42 with K for np.matmul(K, K)
RodriguesNoSquare(a, Km) ==
    MAdd(MAdd(Eye, MScale(Sin(a), Km)), MScale(Sub(One, Cos(a)), Km))

\* lines 40-42: Rodrigues' rotation formula
Rodrigues(a, Km) ==
    MAdd(MAdd(Eye, MScale(Sin(a), Km)), MScale(Sub(One, Cos(a)), MatMul(Km, Km)))

\* lines 24-43 run alone, start to end
vec2vec_rotmat(vv, kk) ==
    LET vn == Normalized(vv)
        kn == Normalized(kk)
        ax == Cross(vn, kn)
    IN  IF IsDegenerate(ax)
        THEN IF IsOpposite(vn, kn) THEN NegEye ELSE Eye
        ELSE Rodrigues(CorrectedAngle(vn, kn, RawAngle(vn, kn)), SkewMatrix(UnitAxis(ax)))

\* every square root the function takes on (a, b) is NaN or rational
RootOk(x) == IsNaN(x) \/ HasExactRoot(x)

ExactInput(a, b) ==
    /\ HasExactRoot(Dot(a, a))
    /\ HasExactRoot(Dot(b, b))
    /\ LET vn == Normalized(a)
           kn == Normalized(b)
           ax == Cross(vn, kn)
       IN  /\ RootOk(Dot(ax, ax))
           /\ IF IsDegenerate(ax)
              THEN RootOk(Dot(VSub(vn, kn), VSub(vn, kn)))
              ELSE LET s == Div(Norm(ax), Mul(Norm(kn), Norm(vn)))
                   IN  RootOk(Sub(One, Mul(s, s)))

\* ---- state ----
VARIABLES
    v_arg,      \* the array the caller passes as v
    k_arg,      \* the array the caller passes as k
    v0,         \* contents of v_arg when the calls were made
    k0,         \* contents of k_arg when the calls were made
    pc,         \* pc[c]: the statement call c is at
    v,          \* v[c]: local v after line 24
    k,          \* k[c]: local k after line 25
    axis,       \* axis[c]: local axis
    angle,      \* angle[c]: local angle
    branch,     \* branch[c]: which return statement call c took
    R           \* R[c]: the matrix call c returned

vars == <<v_arg, k_arg, v0, k0, pc, v, k, axis, angle, branch, R>>

NaNVec == <<NaN, NaN, NaN>>

None == "none"

\* the caller holds arrays with contents a and b and no call has started
Start(a, b) ==
    /\ v_arg = a
    /\ k_arg = b
    /\ v0 = a
    /\ k0 = b
    /\ pc = [c \in Calls |-> "l24"]
    /\ v = [c \in Calls |-> None]
    /\ k = [c \in Calls |-> None]
    /\ axis = [c \in Calls |-> None]
    /\ angle = [c \in Calls |-> None]
    /\ branch = [c \in Calls |-> None]
    /\ R = [c \in Calls |-> None]

Init == \E a \in SeqInputs, b \in SeqInputs : ExactInput(a, b) /\ Start(a, b)

ConcInit == \E a \in ConcInputs, b \in ConcInputs : ExactInput(a, b) /\ Start(a, b)

\* line 24: v = v / np.linalg.norm(v)
L24(c) ==
    /\ pc[c] = "l24"
    /\ v' = [v EXCEPT ![c] = Normalized(v_arg)]
    /\ v_arg' = Rebind(v_arg, Normalized(v_arg))
    /\ pc' = [pc EXCEPT ![c] = "l25"]
    /\ UNCHANGED <<k_arg, v0, k0, k, axis, angle, branch, R>>

\* line 25: k = k / np.linalg.norm(k)
L25(c) ==
    /\ pc[c] = "l25"
    /\ k' = [k EXCEPT ![c] = Normalized(k_arg)]
    /\ k_arg' = Rebind(k_arg, Normalized(k_arg))
    /\ pc' = [pc EXCEPT ![c] = "l26"]
    /\ UNCHANGED <<v_arg, v0, k0, v, axis, angle, branch, R>>

\* lines 26-31: the cross product (astype(float) copies a float array
\* unchanged) and the degenerate branch with its two returns
L26(c) ==
    /\ pc[c] = "l26"
    /\ axis' = [axis EXCEPT ![c] = Cross(v[c], k[c])]
    /\ IF IsDegenerate(Cross(v[c], k[c]))
       THEN IF IsOpposite(v[c], k[c])
            THEN /\ R' = [R EXCEPT ![c] = NegEye]
                 /\ branch' = [branch EXCEPT ![c] = "antiparallel"]
                 /\ pc' = [pc EXCEPT ![c] = "done"]
            ELSE /\ R' = [R EXCEPT ![c] = Eye]
                 /\ branch' = [branch EXCEPT ![c] = "parallel"]
                 /\ pc' = [pc EXCEPT ![c] = "done"]
       ELSE /\ pc' = [pc EXCEPT ![c] = "l32"]
            /\ UNCHANGED <<branch, R>>
    /\ UNCHANGED <<v_arg, k_arg, v0, k0, v, k, angle>>

\* lines 32-36: the unit axis (divided in place, on the call's own array)
\* and the angle, from a second np.cross(v, k)
L32(c) ==
    /\ pc[c] = "l32"
    /\ axis' = [axis EXCEPT ![c] = UnitAxis(axis[c])]
    /\ angle' = [angle EXCEPT ![c] = CorrectedAngle(v[c], k[c], RawAngle(v[c], k[c]))]
    /\ pc' = [pc EXCEPT ![c] = "l37"]
    /\ UNCHANGED <<v_arg, k_arg, v0, k0, v, k, branch, R>>

\* lines 37-43: K, Rodrigues' formula, return R
L37(c) ==
    /\ pc[c] = "l37"
    /\ R' = [R EXCEPT ![c] = Rodrigues(angle[c], SkewMatrix(axis[c]))]
    /\ branch' = [branch EXCEPT ![c] = "general"]
    /\ pc' = [pc EXCEPT ![c] = "done"]
    /\ UNCHANGED <<v_arg, k_arg, v0, k0, v, k, axis, angle>>

\* one call, run alone
Next ==
    \/ L24(1)
    \/ L25(1)
    \/ L26(1)
    \/ L32(1)
    \/ L37(1)

Spec == Init /\ [][Next]_vars

\* every call, interleaved statement by statement
ConcNext ==
    \E c \in Calls :
        \/ L24(c)
        \/ L25(c)
        \/ L26(c)
        \/ L32(c)
        \/ L37(c)

ConcSpec == ConcInit /\ [][ConcNext]_vars

\* ---- vocabulary of the properties ----
ZeroVec == <<Zero, Zero, Zero>>

NaNMatrix == << NaNVec, NaNVec, NaNVec >>

MinusOne == <<-1, 1>>

DiagMinusOne ==
    << <<MinusOne, Zero, Zero>>, <<Zero, MinusOne, Zero>>, <<Zero, Zero, MinusOne>> >>

\* call c has executed a return statement
Done(c) == pc[c] = "done"

NonZeroInput == v0 # ZeroVec /\ k0 # ZeroVec

\* b = (n/m) * a for some positive rational n/m
SameDirection(a, b) ==
    \E m \in 1..MaxC, n \in 1..MaxC : Scale(Num(m), a) = Scale(Num(n), b)

\* b = -(n/m) * a for some positive rational n/m
OppositeDirection(a, b) ==
    \E m \in 1..MaxC, n \in 1..MaxC : Scale(Num(m), a) = Scale(Num(-n), b)

IsOrthogonal(M) == MatMul(M, Transpose(M)) = Eye

SignedAxes ==
    { <<Num(1), Zero, Zero>>, <<Num(-1), Zero, Zero>>,
      <<Zero, Num(1), Zero>>, <<Zero, Num(-1), Zero>>,
      <<Zero, Zero, Num(1)>>, <<Zero, Zero, Num(-1)>> }

RightAngle == [sin |-> One, cos |-> Zero]

\* C1: for non-zero v and k, the returned matrix maps v/|v| onto k/|k|,
\* in the general, parallel and anti-parallel branches alike.
C1_AlignsVWithK ==
    \A c \in Calls :
        (Done(c) /\ NonZeroInput) => MatVec(R[c], Normalized(v0)) = Normalized(k0)

\* an obtuse, not right, angle went through the general branch
C1_Witness ==
    \E c \in Calls :
        /\ Done(c)
        /\ branch[c] = "general"
        /\ Lt(Dot(v[c], k[c]), Zero)
        /\ MatVec(R[c], Normalized(v0)) = Normalized(k0)

\* C2: for non-zero v and k = c*v with c > 0 the degenerate branch is
\* taken, its test |v - k| > |v| is false and the identity is returned.
C2_ParallelGivesIdentity ==
    \A c \in Calls :
        (Done(c) /\ NonZeroInput /\ SameDirection(v0, k0)) =>
            /\ branch[c] = "parallel"
            /\ ~Gt(Norm(VSub(v[c], k[c])), Norm(v[c]))
            /\ R[c] = Eye

\* a call with k a proper multiple of v returned
C2_Witness ==
    \E c \in Calls :
        /\ Done(c)
        /\ NonZeroInput
        /\ SameDirection(v0, k0)
        /\ v0 # k0
        /\ R[c] = Eye

C4_Orthogonal ==
    \A c \in Calls : (Done(c) /\ NonZeroInput) => IsOrthogonal(R[c])

\* the general branch returned, on a cross product that was not a unit vector
C4_Witness ==
    \E c \in Calls :
        /\ Done(c)
        /\ branch[c] = "general"
        /\ Dot(Cross(v[c], k[c]), Cross(v[c], k[c])) # One
        /\ IsOrthogonal(R[c])

C6_ProperRotation ==
    \A c \in Calls :
        (Done(c) /\ NonZeroInput) => (IsOrthogonal(R[c]) /\ Det(R[c]) = One)

\* C7 as stated: when v or k has zero norm the call never returns a matrix.
C7_ZeroNormNeverReturns ==
    \A c \in Calls : ~NonZeroInput => ~Done(c)

\* C7 amended: when v or k has zero norm the call raises nothing: it
\* takes the general branch and returns the matrix whose nine entries are NaN.
C7_ZeroNormReturnsNaN ==
    \A c \in Calls :
        (Done(c) /\ ~NonZeroInput) => (branch[c] = "general" /\ R[c] = NaNMatrix)

\* a call with a zero k and a non-zero v returned
C7_Witness ==
    \E c \in Calls :
        /\ Done(c)
        /\ k0 = ZeroVec
        /\ v0 # ZeroVec
        /\ R[c] = NaNMatrix

C9_NoSideEffects ==
    /\ v_arg = v0
    /\ k_arg = k0
    /\ \A c \in Calls : Done(c) => R[c] = vec2vec_rotmat(v0, k0)

\* every call has returned, from the general branch, on arrays that
\* normalization would have changed
C9_Witness ==
    /\ \A c \in Calls : Done(c) /\ branch[c] = "general"
    /\ NonZeroInput
    /\ Normalized(v0) # v0
    /\ Normalized(k0) # k0

\* C10: in the degenerate branch the test |v - k| > |v| on the normalized
\* vectors decides as dot(v, k) < 0 does: -I is returned exactly when the
\* dot product is negative, I exactly when it is not.
C10_TestAgreesWithDot ==
    \A c \in Calls :
        branch[c] \in {"parallel", "antiparallel"} =>
            /\ (R[c] = DiagMinusOne) <=> Lt(Dot(v[c], k[c]), Zero)
            /\ (R[c] = Eye) <=> ~Lt(Dot(v[c], k[c]), Zero)

\* the degenerate branch returned -I on a negative dot product
C10_Witness ==
    \E c \in Calls :
        /\ branch[c] = "antiparallel"
        /\ R[c] = DiagMinusOne
        /\ Lt(Dot(v[c], k[c]), Zero)

====
